---- MODULE Spec2Model ----
(***************************************************************************)
(* humidityd: the collector loop of main() and the AppContext persistence  *)
(* operations of src/main.py, as a state machine.                          *)
(*                                                                         *)
(* Spec    : one run of main(), from init_pool to the process boundary.    *)
(* SpecApi : the AppContext operations and write_readings called in any    *)
(*           order by a client, on a context built by __init__.            *)
(***************************************************************************)
EXTENDS Integers, Sequences, FiniteSets, TLC

VARIABLES
    mode,            \* "main": main() runs; "api": a client calls the operations
    pc,              \* position of the running code
    pool,            \* ctx.pool: 0 is None, otherwise the index of a pool in pools
    pools,           \* the ConnectionPool objects created so far
    checkedOut,      \* connections handed out by pool.connection() and not yet returned
    tables,          \* tables of the store
    rows,            \* committed rows of readings
    txn,             \* rows inserted by the open transaction, not yet committed
    sensor,          \* dht_device: "none", "acquired", "released"
    temperature,     \* local temperature, <<>> is None
    humidity,        \* local humidity, <<>> is None
    pending,         \* the exception unwinding main(), "none" if there is none
    propagated,      \* the exception that left main(), "none" if there is none
    sleepDur,        \* argument of the time.sleep in progress, 0 outside sleep
    fault,           \* the latest exception raised: by what, which class, where
    pollStartN,      \* fault.n when the latest poll started
    prevClean,       \* the poll before the latest one raised nothing
    sleepLog,        \* the sleeps completed since the latest poll ended
    transients,      \* consecutive transient faults up to now
    polls,           \* polls started
    reads,           \* sensor attribute reads performed
    sleepCount,      \* time.sleep calls made
    completePolls,   \* polls that read both values
    writeCalls,      \* arguments of every write_readings call
    cycleWrites,     \* write_readings calls of the current poll
    inserts,         \* parameters of every INSERT executed
    sensorExitCalls, \* dht_device.exit() calls
    closePoolCalls,  \* ctx.close_pool() calls
    relOrder,        \* resources released, in order
    streak,          \* the run of transient sensor faults up to the current poll
    schemaLast,      \* the latest create_table_if_not_exists call
    apiErr,          \* exception raised by the latest client call, "none" if none
    apiCalls         \* client calls made

vars == <<mode, pc, pool, pools, checkedOut, tables, rows, txn, sensor,
          temperature, humidity, pending, propagated, sleepDur, fault,
          pollStartN, prevClean, sleepLog, transients, polls, reads, sleepCount,
          completePolls, writeCalls, cycleWrites, inserts, sensorExitCalls,
          closePoolCalls, relOrder, streak, schemaLast, apiErr, apiCalls>>

ctxVars    == <<pool, pools>>
storeVars  == <<checkedOut, tables, rows, txn, inserts>>
localVars  == <<temperature, humidity>>
unwindVars == <<sensor, pending, sensorExitCalls, relOrder>>
sleepVars  == <<sleepDur, sleepLog, sleepCount>>
pollVars   == <<transients>>
startVars  == <<pollStartN, prevClean>>
countVars  == <<polls, reads, completePolls>>
writeVars  == <<writeCalls, cycleWrites>>
exitVars   == <<propagated, closePoolCalls>>
apiVars    == <<apiErr, apiCalls>>

(***************************************************************************)
(* Bounds of the model.                                                    *)
(***************************************************************************)
MaxPolls == 3
MaxApiCalls == 4

(***************************************************************************)
(* Program constants.                                                      *)
(***************************************************************************)
LongInterval == 300
ShortBackoff == 2

None == <<>>
Some(v) == <<v>>

\* Sensor values in tenths of a unit; 0 is a legal reading (0.0).
SensorValues == {0, 215}
Readings == {None} \cup {Some(v) : v \in SensorValues}

\* Exception classes. RuntimeError and the other three derive from Exception;
\* KeyboardInterrupt derives from BaseException only.
RuntimeErrorClasses == {"RuntimeError"}
ExceptionClasses == {"RuntimeError", "OSError", "ValueError", "psycopg.Error"}
Interrupt == "KeyboardInterrupt"

SensorFaults == {"RuntimeError", "OSError", "ValueError", Interrupt}
StoreFaults == {"psycopg.Error", "RuntimeError", Interrupt}
PoolInitFaults == {"psycopg.Error"}
SchemaFaults == {"psycopg.Error"}
AcquireFaults == {"RuntimeError", "OSError"}

NoFault == [src |-> "none", cls |-> "none", n |-> 0, at |-> "none"]

\* n polls ended by a transient sensor fault, the sleeps completed and the
\* write_readings calls made since the first of them.
NoStreak == [n |-> 0, sleeps |-> <<>>, writes |-> 0]

NoSchemaCall ==
    [n |-> 0, existed |-> FALSE, store |-> "none", result |-> "none"]

\* The record of one more exception, of class cls, raised by src at this pc.
Raised(src, cls) == [src |-> src, cls |-> cls, n |-> fault.n + 1, at |-> pc]

(***************************************************************************)
(* The state after construction.                                           *)
(***************************************************************************)
InitCommon ==
    /\ pool = 0
    /\ pools = <<>>
    /\ checkedOut = 0
    /\ tables \in SUBSET {"readings"}
    /\ rows = <<>>
    /\ txn = <<>>
    /\ sensor = "none"
    /\ temperature = None
    /\ humidity = None
    /\ pending = "none"
    /\ propagated = "none"
    /\ sleepDur = 0
    /\ fault = NoFault
    /\ pollStartN = 0
    /\ prevClean = FALSE
    /\ sleepLog = <<>>
    /\ transients = 0
    /\ polls = 0
    /\ reads = 0
    /\ sleepCount = 0
    /\ completePolls = 0
    /\ writeCalls = <<>>
    /\ cycleWrites = 0
    /\ inserts = <<>>
    /\ sensorExitCalls = 0
    /\ closePoolCalls = 0
    /\ relOrder = <<>>
    /\ streak = NoStreak
    /\ schemaLast = NoSchemaCall
    /\ apiErr = "none"
    /\ apiCalls = 0

Init == InitCommon /\ mode = "main" /\ pc = "init_pool"

InitApi == InitCommon /\ mode = "api" /\ pc = "api"

(***************************************************************************)
(* AppContext.                                                             *)
(***************************************************************************)
NewPool == [open |-> TRUE, closeCalls |-> 0]

\* init_pool: a new ConnectionPool is built and stored in ctx.pool.
init_pool ==
    /\ pools' = Append(pools, NewPool)
    /\ pool' = Len(pools) + 1

\* close_pool with the test inverted: "if not self.pool".
close_pool_inverted ==
    /\ closePoolCalls' = closePoolCalls + 1
    /\ pool' = pool
    /\ apiErr' = IF pool = 0 THEN "AttributeError" ELSE "none"
    /\ UNCHANGED <<pools, relOrder>>

\* close_pool without the test: None.close() raises AttributeError.
close_pool_unguarded ==
    /\ closePoolCalls' = closePoolCalls + 1
    /\ pool' = pool
    /\ apiErr' = IF pool = 0 THEN "AttributeError" ELSE "none"
    /\ IF pool # 0
         THEN /\ pools' = [pools EXCEPT ![pool] =
                              [open |-> FALSE, closeCalls |-> @.closeCalls + 1]]
              /\ relOrder' = Append(relOrder, "pool")
         ELSE UNCHANGED <<pools, relOrder>>

\* close_pool: "if self.pool: self.pool.close()"; ctx.pool is left as it is.
close_pool ==
    /\ closePoolCalls' = closePoolCalls + 1
    /\ apiErr' = "none"
    /\ pool' = pool
    /\ IF pool # 0
         THEN /\ pools' = [pools EXCEPT ![pool] =
                              [open |-> FALSE, closeCalls |-> @.closeCalls + 1]]
              /\ relOrder' = Append(relOrder, "pool")
         ELSE UNCHANGED <<pools, relOrder>>

\* The result with a plain CREATE TABLE: an existing table is an error.
CreateTableResultPlain(o) ==
    IF pool = 0 THEN "RuntimeError"
    ELSE IF ~pools[pool].open THEN "psycopg.Error"
    ELSE IF "readings" \in tables THEN "psycopg.Error"
    ELSE o

\* What create_table_if_not_exists ends with when the store answers o.
CreateTableResult(o) ==
    IF pool = 0 THEN "RuntimeError"
    ELSE IF ~pools[pool].open THEN "psycopg.Error"
    ELSE o

\* create_table_if_not_exists: CREATE TABLE IF NOT EXISTS readings, commit.
create_table_if_not_exists(o) ==
    /\ tables' = IF CreateTableResult(o) = "ok"
                  THEN tables \cup {"readings"} ELSE tables
    /\ schemaLast' = [n |-> schemaLast.n + 1,
                      existed |-> "readings" \in tables,
                      store |-> o,
                      result |-> CreateTableResult(o)]
    /\ UNCHANGED <<checkedOut, rows, txn, inserts>>

(***************************************************************************)
(* main(): the except clauses and the sleeps of the loop.                  *)
(***************************************************************************)
\* The except clauses with "except Exception" taken for "keep going" as well.
ClassifyKeepGoing(cls) ==
    IF cls \in ExceptionClasses THEN "transient" ELSE "escape"

\* Which except clause of the inner try takes an exception of class cls.
Classify(cls) ==
    IF cls \in RuntimeErrorClasses THEN "transient"
    ELSE IF cls \in ExceptionClasses THEN "fatal"
    ELSE "escape"

\* "if temperature and humidity": a reading of 0.0 counts as absent.
ShouldWriteTruthy(t, h) == t # None /\ h # None /\ t[1] # 0 /\ h[1] # 0

\* "if temperature is not None or humidity is not None".
ShouldWriteLoose(t, h) == t # None \/ h # None

\* if temperature is not None and humidity is not None
ShouldWrite(t, h) == t # None /\ h # None

\* The end of the loop body sleeping the backoff instead of the interval.
EndOfTryShort ==
    /\ pc' = "sleep_long"
    /\ sleepDur' = ShortBackoff
    /\ sleepCount' = sleepCount + 1
    /\ sleepLog' = <<>>
    /\ transients' = 0
    /\ UNCHANGED unwindVars

\* The try body finished without an exception: time.sleep(300.0).
EndOfTry ==
    /\ pc' = "sleep_long"
    /\ sleepDur' = LongInterval
    /\ sleepCount' = sleepCount + 1
    /\ sleepLog' = <<>>
    /\ transients' = 0
    /\ UNCHANGED unwindVars

\* The handlers with a retry limit: the third transient fault in a row is fatal.
InnerExceptBreaker(cls) ==
    IF Classify(cls) = "transient" /\ transients < 2
      THEN /\ pc' = "sleep_short"
           /\ sleepDur' = ShortBackoff
           /\ sleepCount' = sleepCount + 1
           /\ sleepLog' = <<>>
           /\ transients' = transients + 1
           /\ UNCHANGED unwindVars
      ELSE /\ pending' = cls
           /\ pc' = "finally"
           /\ IF Classify(cls) = "escape"
                THEN UNCHANGED <<sensor, sensorExitCalls, relOrder>>
                ELSE /\ sensorExitCalls' = sensorExitCalls + 1
                     /\ sensor' = "released"
                     /\ relOrder' = Append(relOrder, "sensor")
           /\ UNCHANGED <<sleepVars, transients>>

\* The handlers with the fatal one raising a new error instead of "raise error".
InnerExceptWrap(cls) ==
    IF Classify(cls) = "transient"
      THEN /\ pc' = "sleep_short"
           /\ sleepDur' = ShortBackoff
           /\ sleepCount' = sleepCount + 1
           /\ sleepLog' = <<>>
           /\ transients' = transients + 1
           /\ UNCHANGED unwindVars
      ELSE /\ pending' = IF Classify(cls) = "fatal" THEN "RuntimeError" ELSE cls
           /\ pc' = "finally"
           /\ IF Classify(cls) = "escape"
                THEN UNCHANGED <<sensor, sensorExitCalls, relOrder>>
                ELSE /\ sensorExitCalls' = sensorExitCalls + 1
                     /\ sensor' = "released"
                     /\ relOrder' = Append(relOrder, "sensor")
           /\ UNCHANGED <<sleepVars, transients>>

\* The fatal handler acquiring a new sensor handle and polling on.
InnerExceptReacquire(cls) ==
    IF Classify(cls) = "transient"
      THEN /\ pc' = "sleep_short"
           /\ sleepDur' = ShortBackoff
           /\ sleepCount' = sleepCount + 1
           /\ sleepLog' = <<>>
           /\ transients' = transients + 1
           /\ UNCHANGED unwindVars
      ELSE IF Classify(cls) = "fatal"
      THEN /\ sensorExitCalls' = sensorExitCalls + 1
           /\ sensor' = "acquired"
           /\ relOrder' = Append(relOrder, "sensor")
           /\ pc' = "read_temp"
           /\ UNCHANGED <<pending, sleepVars, transients>>
      ELSE /\ pending' = cls
           /\ pc' = "finally"
           /\ UNCHANGED <<sensor, sensorExitCalls, relOrder, sleepVars, transients>>

\* The transient handler with "continue" and no time.sleep(2.0).
InnerExceptNoBackoff(cls) ==
    IF Classify(cls) = "transient"
      THEN /\ pc' = "read_temp"
           /\ transients' = transients + 1
           /\ UNCHANGED <<unwindVars, sleepVars>>
      ELSE /\ pending' = cls
           /\ pc' = "finally"
           /\ IF Classify(cls) = "escape"
                THEN UNCHANGED <<sensor, sensorExitCalls, relOrder>>
                ELSE /\ sensorExitCalls' = sensorExitCalls + 1
                     /\ sensor' = "released"
                     /\ relOrder' = Append(relOrder, "sensor")
           /\ UNCHANGED <<sleepVars, transients>>

\* An exception of class cls is raised inside the inner try.
InnerExcept(cls) ==
    CASE Classify(cls) = "transient" ->
            /\ pc' = "sleep_short"
            /\ sleepDur' = ShortBackoff
            /\ sleepCount' = sleepCount + 1
            /\ sleepLog' = <<>>
            /\ transients' = transients + 1
            /\ UNCHANGED unwindVars
      [] Classify(cls) = "fatal" ->
            /\ sensorExitCalls' = sensorExitCalls + 1
            /\ sensor' = "released"
            /\ relOrder' = Append(relOrder, "sensor")
            /\ pending' = cls
            /\ pc' = "finally"
            /\ UNCHANGED <<sleepVars, transients>>
      [] OTHER ->
            /\ pending' = cls
            /\ pc' = "finally"
            /\ UNCHANGED <<sensor, sensorExitCalls, relOrder, sleepVars, transients>>

\* write_readings raises cls to its caller.
WriteRaise(cls) ==
    IF mode = "api"
      THEN /\ pc' = "api"
           /\ apiErr' = cls
           /\ UNCHANGED <<unwindVars, sleepVars, pollVars>>
      ELSE /\ InnerExcept(cls)
           /\ UNCHANGED apiErr

\* write_readings returns to its caller.
WriteReturn ==
    IF mode = "api"
      THEN /\ pc' = "api"
           /\ apiErr' = "none"
           /\ UNCHANGED <<unwindVars, sleepVars, pollVars>>
      ELSE /\ EndOfTry
           /\ UNCHANGED apiErr

(***************************************************************************)
(* main(): initialisation.                                                 *)
(***************************************************************************)
\* init_pool inside a try that swallows its failure.
InitPoolSwallow ==
    /\ pc = "init_pool"
    /\ \E o \in {"ok"} \cup PoolInitFaults :
         IF o = "ok"
           THEN /\ init_pool
                /\ UNCHANGED fault
           ELSE /\ fault' = Raised("init_pool", o)
                /\ UNCHANGED ctxVars
    /\ pc' = "create_table"
    /\ UNCHANGED <<mode, streak, schemaLast, startVars, storeVars, localVars,
                   unwindVars, sleepVars, pollVars, countVars, writeVars,
                   exitVars, apiVars>>

InitPool ==
    /\ pc = "init_pool"
    /\ \E o \in {"ok"} \cup PoolInitFaults :
         IF o = "ok"
           THEN /\ init_pool
                /\ pc' = "create_table"
                /\ UNCHANGED <<fault, propagated>>
           ELSE /\ fault' = Raised("init_pool", o)
                /\ propagated' = o
                /\ pc' = "done"
                /\ UNCHANGED ctxVars
    /\ UNCHANGED <<mode, streak, schemaLast, startVars, storeVars, localVars,
                   unwindVars, sleepVars, pollVars, countVars, writeVars,
                   closePoolCalls, apiVars>>

CreateTable ==
    /\ pc = "create_table"
    /\ \E o \in {"ok"} \cup SchemaFaults :
         /\ create_table_if_not_exists(o)
         /\ IF CreateTableResult(o) = "ok"
              THEN /\ pc' = "acquire_sensor"
                   /\ UNCHANGED <<fault, propagated>>
              ELSE /\ fault' = Raised("schema", CreateTableResult(o))
                   /\ propagated' = CreateTableResult(o)
                   /\ pc' = "done"
    /\ UNCHANGED <<mode, streak, startVars, ctxVars, localVars, unwindVars,
                   sleepVars, pollVars, countVars, writeVars, closePoolCalls,
                   apiVars>>

\* The sensor built inside the inner try: its failure meets the except clauses.
AcquireSensorInsideTry ==
    /\ pc = "acquire_sensor"
    /\ \E o \in {"ok"} \cup AcquireFaults :
         IF o = "ok"
           THEN /\ sensor' = "acquired"
                /\ pc' = "read_temp"
                /\ UNCHANGED <<fault, pending, sensorExitCalls, relOrder, sleepVars,
                               pollVars>>
           ELSE /\ fault' = Raised("sensor_acquire", o)
                /\ InnerExcept(o)
    /\ UNCHANGED <<mode, streak, schemaLast, startVars, ctxVars, storeVars,
                   localVars, countVars, writeVars, exitVars, apiVars>>

AcquireSensor ==
    /\ pc = "acquire_sensor"
    /\ \E o \in {"ok"} \cup AcquireFaults :
         IF o = "ok"
           THEN /\ sensor' = "acquired"
                /\ pc' = "read_temp"
                /\ UNCHANGED <<fault, pending>>
           ELSE /\ fault' = Raised("sensor_acquire", o)
                /\ pending' = o
                /\ pc' = "finally"
                /\ UNCHANGED sensor
    /\ UNCHANGED <<mode, streak, schemaLast, startVars, ctxVars, storeVars,
                   localVars, sensorExitCalls, relOrder, sleepVars, pollVars,
                   countVars, writeVars, exitVars, apiVars>>

\* The streak a poll starts with: the one so far when the poll before ended
\* with a transient sensor fault, none otherwise.
StreakAtPollStart ==
    IF /\ fault.n > pollStartN
       /\ fault.src = "sensor"
       /\ fault.cls \in RuntimeErrorClasses
      THEN streak ELSE NoStreak

\* The streak sk after a sensor read raised e.
StreakAfterFault(sk, e) ==
    IF e \in RuntimeErrorClasses THEN [sk EXCEPT !.n = @ + 1] ELSE sk

(***************************************************************************)
(* main(): one poll.                                                       *)
(***************************************************************************)
ReadTemperature ==
    /\ pc = "read_temp"
    /\ polls < MaxPolls
    /\ polls' = polls + 1
    /\ reads' = reads + 1
    /\ cycleWrites' = 0
    /\ pollStartN' = fault.n
    /\ prevClean' = (polls > 0 /\ fault.n = pollStartN)
    /\ \/ \E v \in Readings :
            /\ temperature' = v
            /\ pc' = "read_hum"
            /\ streak' = StreakAtPollStart
            /\ UNCHANGED <<fault, unwindVars, sleepVars, pollVars>>
       \/ \E e \in SensorFaults :
            /\ fault' = Raised("sensor", e)
            /\ streak' = StreakAfterFault(StreakAtPollStart, e)
            /\ InnerExcept(e)
            /\ UNCHANGED temperature
    /\ UNCHANGED <<mode, schemaLast, ctxVars, storeVars, humidity,
                   completePolls, writeCalls, exitVars, apiVars>>

ReadHumidity ==
    /\ pc = "read_hum"
    /\ reads' = reads + 1
    /\ \/ \E v \in Readings :
            /\ humidity' = v
            /\ completePolls' = IF temperature # None /\ v # None
                                  THEN completePolls + 1 ELSE completePolls
            /\ IF ShouldWrite(temperature, v)
                 THEN /\ pc' = "write"
                      /\ UNCHANGED <<unwindVars, sleepVars, pollVars>>
                 ELSE EndOfTry
            /\ UNCHANGED <<fault, streak>>
       \/ \E e \in SensorFaults :
            /\ fault' = Raised("sensor", e)
            /\ streak' = StreakAfterFault(streak, e)
            /\ InnerExcept(e)
            /\ UNCHANGED <<humidity, completePolls>>
    /\ UNCHANGED <<mode, schemaLast, startVars, ctxVars, storeVars,
                   temperature, polls, writeVars, exitVars, apiVars>>

(***************************************************************************)
(* write_readings.                                                         *)
(***************************************************************************)
\* The call, and "if not ctx.pool: raise RuntimeError".
WriteCall ==
    /\ pc = "write"
    /\ writeCalls' = Append(writeCalls, <<temperature[1], humidity[1]>>)
    /\ cycleWrites' = cycleWrites + 1
    /\ streak' = [streak EXCEPT !.writes = @ + 1]
    /\ IF pool = 0
         THEN /\ fault' = Raised("write", "RuntimeError")
              /\ WriteRaise("RuntimeError")
         ELSE /\ pc' = "w_acquire"
              /\ UNCHANGED <<fault, unwindVars, sleepVars, pollVars, apiErr>>
    /\ UNCHANGED <<mode, schemaLast, startVars, ctxVars, storeVars,
                   localVars, countVars, exitVars, apiCalls>>

\* with ctx.pool.connection() as conn
WriteAcquire ==
    /\ pc = "w_acquire"
    /\ \/ /\ pools[pool].open
          /\ checkedOut' = checkedOut + 1
          /\ pc' = "w_execute"
          /\ UNCHANGED <<fault, unwindVars, sleepVars, pollVars, apiErr>>
       \/ \E e \in StoreFaults :
            /\ fault' = Raised("write", e)
            /\ WriteRaise(e)
            /\ UNCHANGED checkedOut
    /\ UNCHANGED <<mode, streak, schemaLast, startVars, ctxVars, tables,
                   rows, txn, inserts, localVars, countVars, writeVars,
                   exitVars, apiCalls>>

\* The connection taken with getconn() and never given back.
ConnExitLeak ==
    /\ txn' = <<>>
    /\ UNCHANGED checkedOut

\* Leaving "with ctx.pool.connection() as conn": what is uncommitted is rolled
\* back and the connection goes back to the pool.
ConnExit ==
    /\ txn' = <<>>
    /\ checkedOut' = checkedOut - 1

\* cur.execute(INSERT ..., (temp, hum)); a failure leaves both with blocks.
WriteExecute ==
    /\ pc = "w_execute"
    /\ inserts' = Append(inserts, <<temperature[1], humidity[1]>>)
    /\ \/ /\ "readings" \in tables
          /\ txn' = Append(txn, <<temperature[1], humidity[1]>>)
          /\ pc' = "w_commit"
          /\ UNCHANGED <<checkedOut, fault, unwindVars, sleepVars, pollVars, apiErr>>
       \/ \E e \in StoreFaults :
            /\ ConnExit
            /\ fault' = Raised("write", e)
            /\ WriteRaise(e)
    /\ UNCHANGED <<mode, streak, schemaLast, startVars, ctxVars, tables,
                   rows, localVars, countVars, writeVars, exitVars,
                   apiCalls>>

\* conn.commit(), then the with block is left.
WriteCommit ==
    /\ pc = "w_commit"
    /\ ConnExit
    /\ \/ /\ rows' = rows \o txn
          /\ WriteReturn
          /\ UNCHANGED fault
       \/ \E e \in StoreFaults :
            /\ fault' = Raised("write", e)
            /\ WriteRaise(e)
            /\ UNCHANGED rows
    /\ UNCHANGED <<mode, streak, schemaLast, startVars, ctxVars, tables,
                   inserts, localVars, countVars, writeVars, exitVars,
                   apiCalls>>

(***************************************************************************)
(* main(): the sleeps and the way out.                                     *)
(***************************************************************************)
\* A time.sleep returns, or is interrupted outside the inner try.
Sleep(at) ==
    /\ pc = at
    /\ sleepDur' = 0
    /\ \/ /\ sleepLog' = Append(sleepLog, sleepDur)
          /\ streak' = [streak EXCEPT !.sleeps = Append(@, sleepDur)]
          /\ pc' = "read_temp"
          /\ UNCHANGED <<fault, pending>>
       \/ /\ fault' = Raised("sleep", Interrupt)
          /\ pending' = Interrupt
          /\ pc' = "finally"
          /\ UNCHANGED <<sleepLog, streak>>
    /\ UNCHANGED <<mode, schemaLast, startVars, ctxVars, storeVars,
                   localVars, sensor, sensorExitCalls, relOrder, sleepCount,
                   transients, countVars, writeVars, exitVars, apiVars>>

\* time.sleep(300.0) at the end of the loop body.
SleepLong == Sleep("sleep_long")

\* time.sleep(2.0); continue, in the RuntimeError handler.
SleepShort == Sleep("sleep_short")

\* The finally clause releasing the sensor handle as well.
FinallyWithExit ==
    /\ pc = "finally"
    /\ closePoolCalls' = closePoolCalls + 1
    /\ pools' = [pools EXCEPT ![pool] =
                    [open |-> FALSE, closeCalls |-> @.closeCalls + 1]]
    /\ sensorExitCalls' = sensorExitCalls + 1
    /\ sensor' = "released"
    /\ relOrder' = relOrder \o <<"sensor", "pool">>
    /\ propagated' = pending
    /\ pc' = "done"
    /\ UNCHANGED <<mode, streak, schemaLast, startVars, pool, storeVars,
                   localVars, pending, sleepVars, fault, pollVars, countVars,
                   writeVars, apiVars>>

\* finally: ctx.close_pool(); the pending exception leaves main().
Finally ==
    /\ pc = "finally"
    /\ close_pool
    /\ propagated' = pending
    /\ pc' = "done"
    /\ UNCHANGED <<mode, streak, schemaLast, startVars, storeVars, localVars,
                   sensor, pending, sensorExitCalls, sleepVars, fault,
                   pollVars, countVars, writeVars, apiCalls>>

(***************************************************************************)
(* A client of AppContext and write_readings.                              *)
(***************************************************************************)
ApiInitPool ==
    /\ pc = "api"
    /\ apiCalls < MaxApiCalls
    /\ apiCalls' = apiCalls + 1
    /\ \E o \in {"ok"} \cup PoolInitFaults :
         /\ apiErr' = IF o = "ok" THEN "none" ELSE o
         /\ IF o = "ok" THEN init_pool ELSE UNCHANGED ctxVars
    /\ UNCHANGED <<mode, streak, schemaLast, startVars, pc, storeVars,
                   localVars, unwindVars, sleepVars, fault, pollVars,
                   countVars, writeVars, exitVars>>

ApiClosePool ==
    /\ pc = "api"
    /\ apiCalls < MaxApiCalls
    /\ apiCalls' = apiCalls + 1
    /\ close_pool
    /\ UNCHANGED <<mode, streak, schemaLast, startVars, pc, storeVars,
                   localVars, sensor, pending, sensorExitCalls, sleepVars,
                   fault, pollVars, countVars, writeVars, propagated>>

ApiCreateTable ==
    /\ pc = "api"
    /\ apiCalls < MaxApiCalls
    /\ apiCalls' = apiCalls + 1
    /\ \E o \in {"ok"} \cup SchemaFaults :
         /\ create_table_if_not_exists(o)
         /\ apiErr' = IF CreateTableResult(o) = "ok" THEN "none" ELSE CreateTableResult(o)
    /\ UNCHANGED <<mode, streak, startVars, pc, ctxVars, localVars,
                   unwindVars, sleepVars, fault, pollVars, countVars,
                   writeVars, exitVars>>

ApiWriteReadings ==
    /\ pc = "api"
    /\ apiCalls < MaxApiCalls
    /\ apiCalls' = apiCalls + 1
    /\ \E t \in SensorValues, h \in SensorValues :
         /\ temperature' = Some(t)
         /\ humidity' = Some(h)
    /\ pc' = "write"
    /\ UNCHANGED <<mode, streak, schemaLast, startVars, ctxVars, storeVars,
                   unwindVars, sleepVars, fault, pollVars, countVars,
                   writeVars, exitVars, apiErr>>

(***************************************************************************)
(* Specifications.                                                         *)
(***************************************************************************)
Next ==
    \/ InitPool
    \/ CreateTable
    \/ AcquireSensor
    \/ ReadTemperature
    \/ ReadHumidity
    \/ WriteCall
    \/ WriteAcquire
    \/ WriteExecute
    \/ WriteCommit
    \/ SleepLong
    \/ SleepShort
    \/ Finally

Spec == Init /\ [][Next]_vars

NextApi ==
    \/ ApiInitPool
    \/ ApiClosePool
    \/ ApiCreateTable
    \/ ApiWriteReadings
    \/ WriteCall
    \/ WriteAcquire
    \/ WriteExecute
    \/ WriteCommit

SpecApi == InitApi /\ [][NextApi]_vars

(***************************************************************************)
(* Properties.                                                             *)
(***************************************************************************)
SleepPcs == {"sleep_long", "sleep_short"}
WritePcs == {"w_acquire", "w_execute", "w_commit"}
PollPcs == {"read_hum", "write"} \cup WritePcs
ExitPcs == {"finally", "done"}

\* The step raised an exception of one of the classes, at src.
Raises(src, classes) ==
    /\ fault'.n = fault.n + 1
    /\ fault'.src = src
    /\ fault'.cls \in classes

\* The latest exception is a store failure of write_readings.
StoreWriteFault == fault.src = "write" /\ fault.cls = "psycopg.Error"

C2_OneInsertPerCompletePoll ==
    /\ Len(writeCalls) = completePolls - (IF pc = "write" THEN 1 ELSE 0)
    /\ cycleWrites <= 1
    /\ pc = "write" => (cycleWrites = 0 /\ temperature # None /\ humidity # None)
    /\ pc \in WritePcs =>
          /\ cycleWrites = 1
          /\ writeCalls[Len(writeCalls)] = <<temperature[1], humidity[1]>>
    /\ Len(inserts) <= Len(writeCalls)
    /\ pc = "w_commit" =>
          /\ inserts[Len(inserts)] = writeCalls[Len(writeCalls)]
          /\ txn = <<writeCalls[Len(writeCalls)]>>

C2_Witness ==
    /\ pc = "sleep_long"
    /\ completePolls = 2
    /\ writeCalls = <<<<0, 215>>, <<215, 0>>>>
    /\ rows = writeCalls

\* C3: a poll that returns without a fault but lacks a value makes no
\* write_readings call, executes no INSERT, raises nothing and goes to the long
\* sleep; the long sleep, when it returns, leads back to the sensor read.
C3_PartialReadingDiscarded ==
    /\ [][(/\ pc = "read_hum"
           /\ fault' = fault
           /\ (temperature' = None \/ humidity' = None))
          => (/\ pc' = "sleep_long"
              /\ sleepDur' = LongInterval
              /\ writeCalls' = writeCalls
              /\ inserts' = inserts
              /\ rows' = rows
              /\ pending' = "none"
              /\ sensor' = "acquired")]_vars
    /\ [][(pc = "sleep_long" /\ fault' = fault)
          => (pc' = "read_temp" /\ writeCalls' = writeCalls)]_vars

C3_Witness ==
    /\ pc = "read_hum"
    /\ polls = 2
    /\ fault = NoFault
    /\ humidity = None
    /\ temperature = Some(215)
    /\ sleepLog = <<LongInterval>>
    /\ writeCalls = <<>>

\* C4: a RuntimeError of a sensor read sends the collector to the short sleep
\* of 2 units with the sensor handle held, the pool open and nothing pending,
\* however many transient faults came before; the short sleep, when it
\* returns, leads back to the sensor read.
C4_TransientFaultRetries ==
    /\ [][Raises("sensor", RuntimeErrorClasses)
          => (/\ pc' = "sleep_short"
              /\ sleepDur' = ShortBackoff
              /\ sensor' = "acquired"
              /\ sensorExitCalls' = 0
              /\ closePoolCalls' = 0
              /\ pools'[pool'].open
              /\ pending' = "none"
              /\ propagated' = "none")]_vars
    /\ [][(pc = "sleep_short" /\ fault' = fault)
          => (pc' = "read_temp" /\ sleepLog' = <<ShortBackoff>>)]_vars

C4_Witness ==
    /\ pc = "sleep_short"
    /\ transients = MaxPolls
    /\ fault.src = "sensor"
    /\ sensor = "acquired"

\* C5: once the sensor handle has been acquired, the pool is open and
\* close_pool has not been called while main() is running, and when main() has
\* returned close_pool has been called once and the pool closed once.
C5_PoolClosedExactlyOnce ==
    sensor # "none" =>
        IF pc = "done"
          THEN /\ closePoolCalls = 1
               /\ pools[pool].closeCalls = 1
               /\ ~pools[pool].open
          ELSE /\ closePoolCalls = 0
               /\ pools[pool].closeCalls = 0
               /\ pools[pool].open

C5_Witness ==
    /\ pc = "done"
    /\ fault.src = "sleep"
    /\ transients = 1
    /\ sensor = "acquired"
    /\ pools[pool].closeCalls = 1

\* The latest exception is a non-transient fault of a sensor read.
FatalSensorFault ==
    /\ fault.src = "sensor"
    /\ fault.cls \in ExceptionClasses \ RuntimeErrorClasses

\* C6: after a non-transient fault of a sensor read the sensor handle has been
\* released once, that fault is the exception leaving, and when main() has
\* returned the pool has been closed once and that same fault has propagated.
C6_FatalSensorFaultPropagates ==
    FatalSensorFault =>
        /\ pc \in ExitPcs
        /\ sensor = "released"
        /\ sensorExitCalls = 1
        /\ pending = fault.cls
        /\ pc = "done" =>
              /\ propagated = fault.cls
              /\ closePoolCalls = 1
              /\ pools[pool].closeCalls = 1

C6_Witness ==
    /\ pc = "done"
    /\ FatalSensorFault
    /\ fault.cls = "ValueError"
    /\ propagated = "ValueError"
    /\ polls = 2

\* C7 as stated: whenever main() has ended after the sensor handle was
\* acquired, the handle was released and then the pool was closed.
C7_SensorReleasedBeforePool ==
    (pc = "done" /\ sensor # "none") => relOrder = <<"sensor", "pool">>

\* C8: a poll that raised nothing is followed by the sleep of 300 units, never
\* the one of 2; and a poll that follows a poll that raised nothing has exactly
\* one sleep before it, of 300 units.
C8_LongSleepAfterCleanPoll ==
    /\ (pc \in SleepPcs /\ fault.n = pollStartN) =>
          (pc = "sleep_long" /\ sleepDur = LongInterval)
    /\ (pc \in PollPcs /\ prevClean) => sleepLog = <<LongInterval>>

C8_Witness ==
    /\ pc = "sleep_long"
    /\ polls = 3
    /\ prevClean
    /\ fault = NoFault
    /\ Len(writeCalls) = 1

\* The latest exception came from opening the pool, the schema or the sensor.
InitFault == fault.src \in {"init_pool", "schema", "sensor_acquire"}

\* C9: after a failure of init_pool, create_table_if_not_exists or the sensor
\* constructor there is no sensor read, no write_readings call, no INSERT and
\* no sleep, and the failure is what leaves main().
C9_InitFaultNeverPolls ==
    InitFault =>
        /\ pc \in ExitPcs
        /\ polls = 0
        /\ reads = 0
        /\ writeCalls = <<>>
        /\ inserts = <<>>
        /\ sleepCount = 0
        /\ sleepDur = 0
        /\ pc = "done" => propagated = fault.cls

C9_Witness ==
    /\ pc = "done"
    /\ fault.src = "sensor_acquire"
    /\ fault.cls = "RuntimeError"
    /\ propagated = "RuntimeError"

\* C10 as stated: close_pool on a pool that is already closed performs no
\* further close on the underlying pool, so no pool is ever closed twice.
C10_NoSecondUnderlyingClose ==
    \A i \in DOMAIN pools : pools[i].closeCalls <= 1

\* C10 amended: close_pool never raises and changes nothing of the store; on a
\* context whose pool was never opened it performs nothing; otherwise it calls
\* close on the underlying pool, also when that pool is closed already, and
\* the pool is closed afterwards.
C10_ClosePoolTotal ==
    [][closePoolCalls' # closePoolCalls
       => (/\ apiErr' = "none"
           /\ pool' = pool
           /\ UNCHANGED <<tables, rows, txn, checkedOut>>
           /\ IF pool = 0
                THEN pools' = pools
                ELSE /\ ~pools'[pool].open
                     /\ pools'[pool].closeCalls = pools[pool].closeCalls + 1
                     /\ \A i \in DOMAIN pools \ {pool} : pools'[i] = pools[i]
                     /\ DOMAIN pools' = DOMAIN pools)]_vars

C10_Witness ==
    /\ closePoolCalls = 3
    /\ Len(pools) = 1
    /\ pools[1].closeCalls = 2
    /\ ~pools[1].open
    /\ apiErr = "none"

\* C11: outside the body of the with block of write_readings no connection is
\* checked out, whichever way write_readings was left: by returning, by a
\* failure of the INSERT or by a failure of the commit; inside it exactly one is.
C11_ConnectionReturned ==
    /\ checkedOut = (IF pc \in {"w_execute", "w_commit"} THEN 1 ELSE 0)
    /\ pc \notin {"w_execute", "w_commit"} => txn = <<>>

C11_Witness ==
    /\ fault.src = "write"
    /\ fault.at = "w_commit"
    /\ fault.cls = "psycopg.Error"
    /\ pc = "done"
    /\ checkedOut = 0
    /\ Len(rows) = 1
    /\ Len(inserts) = 2

\* C12 as stated: a failure raised by write_readings is never followed by the
\* short backoff: the collector is never in the 2-unit sleep with a failure of
\* the write path as the latest exception.
C12_WriteFaultNeverBacksOff ==
    fault.src = "write" => pc # "sleep_short"

\* C13: once a sensor read has raised a non-transient fault there is no further
\* poll, sensor read, write_readings call, INSERT or sleep, and the sensor
\* handle stays released.
C13_FatalSensorFaultIsTerminal ==
    [][FatalSensorFault
       => (/\ polls' = polls
           /\ reads' = reads
           /\ writeCalls' = writeCalls
           /\ inserts' = inserts
           /\ sleepCount' = sleepCount
           /\ sleepDur' = 0
           /\ sensor' = "released"
           /\ pc' \in ExitPcs)]_vars

C13_Witness ==
    /\ FatalSensorFault
    /\ fault.cls = "OSError"
    /\ fault.at = "read_hum"
    /\ pc = "done"
    /\ polls = 1
    /\ reads = 2

\* C17 as stated: when main() has ended, every pool that was opened is closed.
C17_OpenedPoolClosedAtExit ==
    pc = "done" => \A i \in DOMAIN pools : ~pools[i].open

\* C14: create_table_if_not_exists called on a store that has the readings
\* table leaves the store with that one table and the rows as they were, and
\* with an open pool and a store that answers it raises nothing.
C14_SchemaEnsureIdempotent ==
    [][(schemaLast'.n = schemaLast.n + 1 /\ "readings" \in tables)
       => (/\ tables' = {"readings"}
           /\ rows' = rows
           /\ (pool # 0 /\ pools[pool].open /\ schemaLast'.store = "ok")
                 => (schemaLast'.result = "ok" /\ apiErr' = "none"))]_vars

C14_Witness ==
    /\ schemaLast.n = 2
    /\ schemaLast.existed
    /\ schemaLast.result = "ok"
    /\ apiErr = "none"
    /\ apiCalls = 4
    /\ Len(rows) = 1
    /\ tables = {"readings"}

ReadPcs == {"read_temp", "read_hum"}

\* The activities in progress: a sensor read, an insert, a sleep.
Activities ==
    {a \in {"read", "insert", "sleep"} :
        \/ a = "read" /\ pc \in ReadPcs
        \/ a = "insert" /\ (pc \in WritePcs \/ checkedOut > 0 \/ txn # <<>>)
        \/ a = "sleep" /\ sleepDur > 0}

\* C15: at most one of sensor read, insert and sleep is in progress, at most
\* one connection is checked out, and while the collector reads the sensor or
\* sleeps no insert is in flight.
C15_OneActivityAtATime ==
    /\ Cardinality(Activities) <= 1
    /\ checkedOut <= 1
    /\ sleepDur > 0 <=> pc \in SleepPcs
    /\ pc \in ReadPcs \cup SleepPcs => (checkedOut = 0 /\ txn = <<>>)

C15_Witness ==
    /\ pc = "read_hum"
    /\ polls = 3
    /\ Len(rows) = 2
    /\ checkedOut = 0
    /\ Activities = {"read"}

\* C18: create_table_if_not_exists, every write_readings call, every connection
\* taken and every INSERT happen with ctx.pool set to an open pool and before
\* close_pool has been called.
C18_StoreUsedOnlyWhilePoolOpen ==
    [][(\/ schemaLast' # schemaLast
        \/ writeCalls' # writeCalls
        \/ inserts' # inserts
        \/ checkedOut' > checkedOut)
       => (pool # 0 /\ pools[pool].open /\ closePoolCalls = 0)]_vars

C18_Witness ==
    /\ pc = "w_commit"
    /\ schemaLast.n = 1
    /\ schemaLast.result = "ok"
    /\ pools[pool].open
    /\ closePoolCalls = 0
    /\ Len(inserts) = 3

\* C19: dht_device.exit() is called at most once, only by the handler of a
\* fatal fault on the way out of main(); wherever the collector reads the
\* sensor, writes or sleeps the handle is acquired.
C19_SensorReleasedOnlyByFatalFault ==
    /\ sensorExitCalls <= 1
    /\ sensor = "released" <=> sensorExitCalls = 1
    /\ sensorExitCalls = 1 =>
          /\ fault.cls \in ExceptionClasses \ RuntimeErrorClasses
          /\ fault.src \in {"sensor", "write"}
          /\ pc \in ExitPcs
    /\ pc \in ReadPcs \cup {"write"} \cup WritePcs \cup SleepPcs =>
          sensor = "acquired"

C19_Witness ==
    /\ pc = "done"
    /\ sensorExitCalls = 1
    /\ fault.src = "write"
    /\ fault.at = "w_acquire"
    /\ fault.n = 3
    /\ polls = 3
    /\ writeCalls = <<<<0, 0>>, <<215, 215>>>>

\* Every sleep of the sequence is the short backoff.
AllShort(sleeps) == \A i \in DOMAIN sleeps : sleeps[i] = ShortBackoff

\* C16: with N polls in a row ended by a transient sensor fault, the poll that
\* follows them starts after exactly N sleeps, each of 2 units; none of the N
\* polls made a write_readings call, wherever its fault was raised, and the
\* poll that reads both values makes exactly one.
C16_TransientStreakThenOneInsert ==
    /\ pc \in {"read_hum", "write"} =>
          /\ Len(streak.sleeps) = streak.n
          /\ AllShort(streak.sleeps)
          /\ streak.writes = 0
    /\ (pc \in WritePcs \/ (pc = "sleep_long" /\ cycleWrites = 1)) =>
          /\ Len(streak.sleeps) = streak.n
          /\ AllShort(streak.sleeps)
          /\ streak.writes = 1
    /\ (pc = "sleep_short" /\ fault.src = "sensor") =>
          /\ Len(streak.sleeps) = streak.n - 1
          /\ AllShort(streak.sleeps)
          /\ streak.writes = 0
          /\ cycleWrites = 0

C16_Witness ==
    /\ pc = "sleep_long"
    /\ streak.n = 2
    /\ streak.sleeps = <<ShortBackoff, ShortBackoff>>
    /\ streak.writes = 1
    /\ fault.at = "read_hum"
    /\ polls = 3
    /\ writeCalls = <<<<215, 0>>>>
    /\ rows = writeCalls

====
